---- MODULE Spec2Model ----
(***************************************************************************)
(* A model of run_pretrain.py: the checkpoint rotation                     *)
(* (sorted_checkpoints, rotate_checkpoints), the warmup/linear-decay       *)
(* schedule (WarmupLinearSchedule.lr_lambda) and the step loop of          *)
(* pretrain (gradient accumulation, optimizer/scheduler stepping, loss     *)
(* bookkeeping, periodic and final saves).                                 *)
(*                                                                         *)
(* Conventions                                                             *)
(*  - A checkpoint directory "<root>/checkpoint-<suffix>" is modelled by   *)
(*    its suffix, a sequence of ASCII codes ("10" is <<49, 48>>).  The     *)
(*    prefix is the same for every entry of one root, so comparing         *)
(*    suffixes compares paths.                                             *)
(*  - Python floats are modelled by exact fractions <<num, den>> in lowest *)
(*    terms with den > 0.                                                  *)
(*  - Optional[int] is modelled by a set: {} is None, {n} is the int n.    *)
(***************************************************************************)
EXTENDS Integers, Sequences, FiniteSets, TLC

(***************************************************************************)
(* Bounds of the model.                                                    *)
(***************************************************************************)
MaxAccum == 2
MaxEpochs == 2
MaxBatches == 3
MaxSaveSteps == 2
MaxLimit == 3
MaxTotal == 6
\* the examples of a batch
MaxBatch == 2
\* the positions of a batch whose random draws are free in one call
MaxTouched == 1

(***************************************************************************)
(* Exact fractions standing for Python floats.                             *)
(***************************************************************************)
Abs(x) == IF x < 0 THEN -x ELSE x

RECURSIVE GCD(_, _)
GCD(a, b) == IF b = 0 THEN a ELSE GCD(b, a % b)

\* n / d in lowest terms, d # 0
Frac(n, d) ==
    LET g == GCD(Abs(n), Abs(d))
        s == IF d < 0 THEN -1 ELSE 1
    IN  <<(s * n) \div g, (s * d) \div g>>

FInt(n) == <<n, 1>>
FZero == FInt(0)
FOne == FInt(1)
\* Each operation takes its operands through a bound variable, so that an
\* operand that is itself an expression is evaluated once.
FAdd(x, y) ==
    CHOOSE r \in {Frac(a[1] * b[2] + b[1] * a[2], a[2] * b[2]) : a \in {x}, b \in {y}} : TRUE
FSub(x, y) ==
    CHOOSE r \in {Frac(a[1] * b[2] - b[1] * a[2], a[2] * b[2]) : a \in {x}, b \in {y}} : TRUE
FMul(x, y) ==
    CHOOSE r \in {Frac(a[1] * b[1], a[2] * b[2]) : a \in {x}, b \in {y}} : TRUE
\* x / y, y # 0
FDiv(x, y) ==
    CHOOSE r \in {Frac(a[1] * b[2], a[2] * b[1]) : a \in {x}, b \in {y}} : TRUE
FLt(x, y) == x[1] * y[2] < y[1] * x[2]
FLe(x, y) == x[1] * y[2] <= y[1] * x[2]
FMax(x, y) ==
    CHOOSE r \in {IF FLt(a, b) THEN b ELSE a : a \in {x}, b \in {y}} : TRUE

(***************************************************************************)
(* Optional[int].                                                          *)
(***************************************************************************)
None == {}
Some(n) == {n}
Val(o) == CHOOSE n \in o : TRUE

(***************************************************************************)
(* Checkpoint directory names.                                             *)
(***************************************************************************)
IsDigit(c) == c \in 48..57

\* f'{global_steps}' for global_steps >= 0: the decimal digits
RECURSIVE FormatInt(_)
FormatInt(n) ==
    IF n < 10 THEN <<48 + n>> ELSE Append(FormatInt(n \div 10), 48 + (n % 10))

\* the group ([0-9]+) of re.match(".*checkpoint-([0-9]+)", path): the longest
\* run of digits that starts the suffix; <<>> when the regex does not match
RECURSIVE DigitRun(_)
DigitRun(name) ==
    IF name = <<>> \/ ~IsDigit(Head(name)) THEN <<>>
    ELSE <<Head(name)>> \o DigitRun(Tail(name))

RegexMatches(name) == DigitRun(name) # <<>>

\* int(digits)
RECURSIVE ParseDigits(_, _)
ParseDigits(acc, digits) ==
    IF digits = <<>> THEN acc
    ELSE ParseDigits(10 * acc + (Head(digits) - 48), Tail(digits))

ParseInt(name) == ParseDigits(0, DigitRun(name))

\* Python's str comparison p < q (code points, shorter prefix first)
RECURSIVE StrLt(_, _)
StrLt(p, q) ==
    IF q = <<>> THEN FALSE
    ELSE IF p = <<>> THEN TRUE
    ELSE IF Head(p) # Head(q) THEN Head(p) < Head(q)
    ELSE StrLt(Tail(p), Tail(q))

\* Python's tuple comparison (int, str) <= (int, str)
TupleLe(x, y) == x[1] < y[1] \/ (x[1] = y[1] /\ (x[2] = y[2] \/ StrLt(x[2], y[2])))

\* sorted(...) of a set of distinct (int, path) tuples
RECURSIVE Sorted(_)
Sorted(S) ==
    IF S = {} THEN <<>>
    ELSE LET m == CHOOSE x \in S : \A y \in S : TupleLe(x, y)
         IN  <<m>> \o Sorted(S \ {m})

Range(s) == {s[i] : i \in 1..Len(s)}
IndexOf(s, x) == CHOOSE i \in 1..Len(s) : s[i] = x /\ \A j \in 1..(i - 1) : s[j] # x

(***************************************************************************)
(* Checkpoint rotation.                                                    *)
(***************************************************************************)
\* checkpoints_sorted = [checkpoint[1] for checkpoint in checkpoints_sorted]
Paths(tuples) == [i \in 1..Len(tuples) |-> tuples[i][2]]

\* Lines 270-283 of sorted_checkpoints(args, best_model_checkpoint,
\* use_mtime=False) over the directories `dirs` that
\* Path(record_save_path).glob("checkpoint-*") lists: the paths the regex
\* matches, sorted by (int(step), path).  Every caller passes use_mtime=False,
\* so the mtime branch is not modelled.
checkpoints_sorted_by_step(dirs) ==
    Paths(Sorted({<<ParseInt(p), p>> : p \in {q \in dirs : RegexMatches(q)}}))

\* lines 285-290 without the exchange
keep_order(checkpoints_sorted, best) ==
    IF best # None /\ Val(best) \notin Range(checkpoints_sorted)
    THEN [raised |-> TRUE, list |-> <<>>]
    ELSE [raised |-> FALSE, list |-> checkpoints_sorted]

\* the exchange of positions i and j of a list
Swap(list, i, j) ==
    [k \in 1..Len(list) |-> IF k = i THEN list[j] ELSE IF k = j THEN list[i] ELSE list[k]]

\* Lines 285-290: the protected entry is exchanged with the last one.
\* raised: checkpoints_sorted.index(...) raised ValueError.
swap_best_to_tail(checkpoints_sorted, best) ==
    IF best = None
    THEN [raised |-> FALSE, list |-> checkpoints_sorted]
    ELSE IF Val(best) \notin Range(checkpoints_sorted)
    THEN [raised |-> TRUE, list |-> <<>>]
    ELSE [raised |-> FALSE,
          list |-> Swap(checkpoints_sorted, IndexOf(checkpoints_sorted, Val(best)),
                        Len(checkpoints_sorted))]

\* a sorted_checkpoints that forgets to move the protected entry to the tail
sorted_checkpoints_noswap(dirs, best) ==
    keep_order(checkpoints_sorted_by_step(dirs), best)

\* sorted_checkpoints(args, best_model_checkpoint)
sorted_checkpoints(dirs, best) ==
    swap_best_to_tail(checkpoints_sorted_by_step(dirs), best)

\* an early return that lets the limit 0 through
limit_disabled_strict(save_total_limit) ==
    save_total_limit = None \/ Val(save_total_limit) < 0

\* line 295, the early return of rotate_checkpoints
limit_disabled(save_total_limit) ==
    save_total_limit = None \/ Val(save_total_limit) <= 0

Max(a, b) == IF a < b THEN b ELSE a

\* a rotation that keeps one checkpoint more than the limit
checkpoints_to_be_deleted_late(checkpoints_sorted, limit) ==
    IF Len(checkpoints_sorted) <= limit + 1 THEN <<>>
    ELSE SubSeq(checkpoints_sorted, 1, Max(0, Len(checkpoints_sorted) - limit - 1))

\* lines 300-304: checkpoints_to_be_deleted, for the list sorted_checkpoints
\* returned (<<>> on the early return of line 301)
checkpoints_to_be_deleted(checkpoints_sorted, limit) ==
    IF Len(checkpoints_sorted) <= limit THEN <<>>
    ELSE SubSeq(checkpoints_sorted, 1, Max(0, Len(checkpoints_sorted) - limit))

\* The outcomes of one shutil.rmtree(checkpoint): it removes the tree, or it
\* raises with the tree left in place (permission), or it raises because the
\* tree was removed by someone else in the meantime.
RmFailures == {"denied", "vanished"}

\* the entries the for loop of lines 305-306 removed before it ended
Removed(to_delete, fail_at) ==
    IF fail_at \in 1..Len(to_delete)
    THEN Range(SubSeq(to_delete, 1, fail_at - 1))
    ELSE Range(to_delete)

\* the entry that is gone although its rmtree raised
Vanished(to_delete, fail_at, fail_kind) ==
    IF fail_at \in 1..Len(to_delete) /\ fail_kind = "vanished"
    THEN {to_delete[fail_at]}
    ELSE {}

\* Lines 305-306: for checkpoint in checkpoints_to_be_deleted: rmtree.
\* fail_at is the position of the first rmtree that raises (none raises when
\* it is outside the list), fail_kind how it fails.  An exception leaves the
\* loop, so the entries after fail_at are not touched.
\* dirs: the directories afterwards; deleted: those rmtree removed;
\* raised: an exception left the function.
delete_checkpoints(dirs, to_delete, fail_at, fail_kind) ==
    [dirs |-> (dirs \ Removed(to_delete, fail_at))
                  \ Vanished(to_delete, fail_at, fail_kind),
     deleted |-> Removed(to_delete, fail_at),
     raised |-> fail_at \in 1..Len(to_delete)]

\* lines 299-306, for the result sc of sorted_checkpoints
rotate_sorted(dirs, sc, limit, fail_at, fail_kind) ==
    IF sc.raised
    THEN [dirs |-> dirs, deleted |-> {}, raised |-> TRUE]
    ELSE delete_checkpoints(dirs, checkpoints_to_be_deleted(sc.list, limit),
                            fail_at, fail_kind)

\* rotate_checkpoints(args, best_model_checkpoint)
rotate_checkpoints(save_total_limit, dirs, best, fail_at, fail_kind) ==
    IF limit_disabled(save_total_limit)
    THEN [dirs |-> dirs, deleted |-> {}, raised |-> FALSE]
    ELSE rotate_sorted(dirs, sorted_checkpoints(dirs, best), Val(save_total_limit),
                       fail_at, fail_kind)

(***************************************************************************)
(* The schedule.                                                           *)
(***************************************************************************)
\* the decay without its max(0.0, ...)
lr_lambda_unclamped(step, warmup_steps, t_total) ==
    IF FLt(FInt(step), warmup_steps)
    THEN FDiv(FInt(step), FMax(FOne, warmup_steps))
    ELSE FDiv(FSub(FInt(t_total), FInt(step)),
              FMax(FOne, FSub(FInt(t_total), warmup_steps)))

\* an lr_lambda whose warmup branch also takes step == warmup_steps
lr_lambda_inclusive(step, warmup_steps, t_total) ==
    IF FLe(FInt(step), warmup_steps)
    THEN FDiv(FInt(step), FMax(FOne, warmup_steps))
    ELSE FMax(FZero, FDiv(FSub(FInt(t_total), FInt(step)),
                          FMax(FOne, FSub(FInt(t_total), warmup_steps))))

\* WarmupLinearSchedule.lr_lambda(step); warmup_steps is a float (a fraction
\* here), t_total and step are ints
lr_lambda(step, warmup_steps, t_total) ==
    IF FLt(FInt(step), warmup_steps)
    THEN FDiv(FInt(step), FMax(FOne, warmup_steps))
    ELSE FMax(FZero, FDiv(FSub(FInt(t_total), FInt(step)),
                          FMax(FOne, FSub(FInt(t_total), warmup_steps))))

\* --warmup_ratio, default 0.1
warmup_ratio == Frac(1, 10)

\* build_optimizer: warmup_steps=train_steps * args.warmup_ratio.  The exact
\* product stands for the float one; for the run lengths of this model both
\* put every integer step on the same side of warmup_steps.
build_warmup_steps(train_steps) == FMul(FInt(train_steps), warmup_ratio)

(***************************************************************************)
(* DGDataCollator.  A matrix is a sequence of rows, a position is <<i, j>>,*)
(* a boolean matrix is the set of the positions where it is true.          *)
(***************************************************************************)
\* the ids the tokenizer gives [PAD], [CLS], [SEP] and [MASK]
pad_token_id == 0
cls_token_id == 101
sep_token_id == 102
mask_token_id == 103
\* line 163: the label of a position that is not masked
IgnoreIndex == -100
\* --max_seq_len, by default
default_max_seq_len == 350

\* torch.zeros: a row of n zeros
Zeros(n) == [j \in 1..n |-> 0]
\* row[:n], for n >= 0
Take(row, n) == SubSeq(row, 1, n)
\* a zero row of n >= Len(row) columns with row written to its head
PadTo(row, n) == row \o Zeros(n - Len(row))
\* the positions of a matrix of B rows and L columns
Positions(B, L) == (1..B) \X (1..L)
\* the number of columns of a matrix
Width(matrix) == IF matrix = <<>> THEN 0 ELSE Len(matrix[1])

\* lines 122-142, without the SEP of line 138
pad_and_truncate_nosep(input_ids_list, token_type_ids_list, attention_mask_list, max_seq_len) ==
    [input_ids |-> [i \in 1..Len(input_ids_list) |->
                       IF Len(input_ids_list[i]) <= max_seq_len
                       THEN PadTo(input_ids_list[i], max_seq_len)
                       ELSE Take(input_ids_list[i], max_seq_len)],
     token_type_ids |-> [i \in 1..Len(input_ids_list) |->
                       IF Len(input_ids_list[i]) <= max_seq_len
                       THEN PadTo(token_type_ids_list[i], max_seq_len)
                       ELSE Take(token_type_ids_list[i], max_seq_len)],
     attention_mask |-> [i \in 1..Len(input_ids_list) |->
                       IF Len(input_ids_list[i]) <= max_seq_len
                       THEN PadTo(attention_mask_list[i], max_seq_len)
                       ELSE Take(attention_mask_list[i], max_seq_len)]]

\* lines 122-142
pad_and_truncate(input_ids_list, token_type_ids_list, attention_mask_list, max_seq_len) ==
    [input_ids |-> [i \in 1..Len(input_ids_list) |->
                       IF Len(input_ids_list[i]) <= max_seq_len
                       THEN PadTo(input_ids_list[i], max_seq_len)
                       ELSE Append(Take(input_ids_list[i], max_seq_len - 1),
                                   sep_token_id)],
     token_type_ids |-> [i \in 1..Len(input_ids_list) |->
                       IF Len(input_ids_list[i]) <= max_seq_len
                       THEN PadTo(token_type_ids_list[i], max_seq_len)
                       ELSE Take(token_type_ids_list[i], max_seq_len)],
     attention_mask |-> [i \in 1..Len(input_ids_list) |->
                       IF Len(input_ids_list[i]) <= max_seq_len
                       THEN PadTo(attention_mask_list[i], max_seq_len)
                       ELSE Take(attention_mask_list[i], max_seq_len)]]

\* lines 154-157: tokenizer.get_special_tokens_mask(row,
\* already_has_special_tokens=True) of every row flags the ids the tokenizer
\* holds special
get_special_tokens_mask(inputs, special_ids) ==
    {p \in Positions(Len(inputs), Width(inputs)) : inputs[p[1]][p[2]] \in special_ids}

\* line 162 without the masked_fill_ of line 161
masked_indices_nofill(below_p, special_tokens_mask) == below_p

\* lines 161-162: torch.bernoulli(probability_matrix) is true where the
\* uniform draw fell below the probability of the position, which is
\* mlm_probability (below_p) and 0.0 at a flagged position
masked_indices(below_p, special_tokens_mask) == below_p \ special_tokens_mask

\* line 163 with the mask inverted
mlm_labels_inverted(inputs, masked) ==
    [i \in 1..Len(inputs) |-> [j \in 1..Width(inputs) |->
        IF <<i, j>> \in masked THEN IgnoreIndex ELSE inputs[i][j]]]

\* lines 150 and 163: labels = inputs.clone(); labels[~masked_indices] = -100
mlm_labels(inputs, masked) ==
    [i \in 1..Len(inputs) |-> [j \in 1..Width(inputs) |->
        IF <<i, j>> \in masked THEN inputs[i][j] ELSE IgnoreIndex]]

\* line 166
indices_replaced(bernoulli_08, masked) == bernoulli_08 \cap masked

\* line 170 without "& ~indices_replaced"
indices_random_overlapping(bernoulli_05, masked, replaced) == bernoulli_05 \cap masked

\* line 170
indices_random(bernoulli_05, masked, replaced) == (bernoulli_05 \cap masked) \ replaced

\* lines 167 and 172: the mask token is written first, the random words after
corrupt(inputs, replaced, random, random_words) ==
    [i \in 1..Len(inputs) |-> [j \in 1..Width(inputs) |->
        IF <<i, j>> \in random THEN random_words[<<i, j>>]
        ELSE IF <<i, j>> \in replaced THEN mask_token_id
        ELSE inputs[i][j]]]

\* lines 163-175, once masked_indices and indices_replaced are known
mask_tokens_replaced(inputs, special_tokens_mask, masked, replaced, draws) ==
    [inputs |-> inputs,
     special_tokens_mask |-> special_tokens_mask,
     masked_indices |-> masked,
     indices_replaced |-> replaced,
     indices_random |-> indices_random(draws.bernoulli_05, masked, replaced),
     corrupted |-> corrupt(inputs, replaced,
                           indices_random(draws.bernoulli_05, masked, replaced),
                           draws.random_words),
     labels |-> mlm_labels(inputs, masked)]

\* lines 163-175, once masked_indices is known
mask_tokens_masked(inputs, special_tokens_mask, masked, draws) ==
    mask_tokens_replaced(inputs, special_tokens_mask, masked,
                         indices_replaced(draws.bernoulli_08, masked), draws)

\* lines 144-175.  draws: what the random generator returns in this call,
\* below_p (the positions whose uniform draw is below mlm_probability),
\* bernoulli_08, bernoulli_05 and random_words
mask_tokens(inputs, special_tokens_mask, draws) ==
    mask_tokens_masked(inputs, special_tokens_mask,
                       masked_indices(draws.below_p, special_tokens_mask), draws)

\* line 179: max(len(input_id) for input_id in input_ids_list); line 178 lets
\* no empty list come this far
RECURSIVE cur_max_seq_len(_)
cur_max_seq_len(input_ids_list) ==
    IF input_ids_list = <<>> THEN 0
    ELSE Max(Len(Head(input_ids_list)), cur_max_seq_len(Tail(input_ids_list)))

\* line 178: the three names list(zip(*examples)) is unpacked into
input_ids_list(examples) == [i \in 1..Len(examples) |-> examples[i][1]]
token_type_ids_list(examples) == [i \in 1..Len(examples) |-> examples[i][2]]
attention_mask_list(examples) == [i \in 1..Len(examples) |-> examples[i][3]]

\* line 178: list(zip(*examples)) has one list per field of an example and
\* no list at all when there is no example
zip_star(examples) ==
    IF examples = <<>> THEN <<>>
    ELSE <<input_ids_list(examples), token_type_ids_list(examples),
           attention_mask_list(examples)>>

\* a call that returns whatever it is handed
call_raises_never(examples) == FALSE

\* line 178: unpacking into three names raises ValueError unless zip(*examples)
\* holds three lists
call_raises(examples) == Len(zip_star(examples)) # 3

\* the configured length whatever the batch holds
batch_seq_len_fixed(cur_max, max_seq_len) == max_seq_len

\* line 180: min(cur_max_seq_len, self.max_seq_len)
batch_seq_len(cur_max, max_seq_len) == IF cur_max < max_seq_len THEN cur_max ELSE max_seq_len

\* lines 188-194: the returned dict, and the locals of mask_tokens
data_dict(padded, m) ==
    [masking |-> [inputs |-> m.inputs,
                  special_tokens_mask |-> m.special_tokens_mask,
                  masked_indices |-> m.masked_indices,
                  indices_replaced |-> m.indices_replaced,
                  indices_random |-> m.indices_random],
     batch |-> [input_ids |-> m.corrupted,
                attention_mask |-> padded.attention_mask,
                token_type_ids |-> padded.token_type_ids,
                labels |-> m.labels]]

\* lines 186-194
mask_and_return(padded, special_ids, draws) ==
    data_dict(padded, mask_tokens(padded.input_ids,
                                  get_special_tokens_mask(padded.input_ids, special_ids),
                                  draws))

\* lines 181-194 of __call__
collate(ids_list, types_list, mask_list, max_seq_len, special_ids, draws) ==
    mask_and_return(pad_and_truncate(ids_list, types_list, mask_list, max_seq_len),
                    special_ids, draws)

\* nothing returned, no call of mask_tokens made
NoMasking == [inputs |-> <<>>, special_tokens_mask |-> {}, masked_indices |-> {},
              indices_replaced |-> {}, indices_random |-> {}]
NoBatch == [input_ids |-> <<>>, attention_mask |-> <<>>, token_type_ids |-> <<>>,
            labels |-> <<>>]

(***************************************************************************)
(* State.                                                                  *)
(***************************************************************************)
VARIABLES
    pc,                  \* where the program is
    args,                \* the parsed command line options pretrain reads
    len_dataloader,      \* len(train_dataloader), the batches of one epoch
    batch_loss,          \* the loss the model returns on each batch of an epoch
    epoch, step,         \* the loop variables of pretrain
    global_steps,
    warmup_steps, t_total, last_epoch, lr_mult,  \* the scheduler
    grad,                \* the gradient accumulated in the parameters
    window,              \* the recorded losses of the sub-steps since zero_grad
    applied_grad,        \* the gradient the last applied optimizer step used
    optimizer_calls,     \* calls of optimizer.step / scaler.step
    optimizer_skipped,   \* those of them the scaler skipped (overflow)
    total_loss, cur_avg_loss, pretrain_loss_list, global_steps_list,
    record_dirs,         \* checkpoint-* directories under record_save_path
    record_dirs_at_start,\* what record_save_path held when the run started
    save_dirs,           \* checkpoint-* directories under save_path
    save_log,            \* the periodic saves so far, in order
    did_update, did_save,\* what the last sub-step did
    best_model_checkpoint, dirs_before, deleted, \* the last rotation
    collator,            \* the DGDataCollator: max_seq_len and its tokenizer
    examples,            \* the examples handed to the collator
    masking,             \* the locals of mask_tokens in the last call
    batch                \* what the last call of the collator returned

loopVars == <<epoch, step, global_steps>>
schedVars == <<warmup_steps, t_total, last_epoch, lr_mult>>
optVars == <<grad, window, applied_grad, optimizer_calls, optimizer_skipped>>
lossVars == <<total_loss, cur_avg_loss, pretrain_loss_list, global_steps_list>>
dirVars == <<record_dirs, save_dirs, save_log>>
rotVars == <<best_model_checkpoint, dirs_before, deleted>>
collVars == <<collator, examples, masking, batch>>
vars == <<pc, args, len_dataloader, batch_loss, record_dirs_at_start, collVars, loopVars, schedVars, optVars, lossVars,
          dirVars, did_update, did_save, rotVars>>

(***************************************************************************)
(* Input domains.                                                          *)
(***************************************************************************)
\* the loss values model(**batch_cuda)[0] may return; a run draws one per
\* position of the batch in its epoch
Losses == {1, 2}
\* --logging_step
LoggingSteps == {1, 2}
\* --save_total_limit in a training run
RunLimits == {None, Some(0), Some(1), Some(2)}
\* what record_save_path holds when a run starts (create_dirs keeps what is
\* there): nothing, or checkpoint-9 left by an earlier run
InitialRecordDirs == {{}, {<<57>>}}
\* --save_total_limit given to a rotation on its own
Limits == {None} \cup {Some(n) : n \in (-1)..MaxLimit}
\* the directory names a rotation on its own may find: checkpoint-10 ..
\* checkpoint-50, checkpoint-5, checkpoint-05 and checkpoint-x
Names == {<<49, 48>>, <<50, 48>>, <<51, 48>>, <<52, 48>>, <<53, 48>>,
          <<53>>, <<48, 53>>, <<120>>}

(***************************************************************************)
(* The step loop of pretrain.                                              *)
(***************************************************************************)
\* lines 348-349: loss = loss / args.gradient_accumulation_steps
scaled_loss(loss, gradient_accumulation_steps) ==
    IF gradient_accumulation_steps > 1
    THEN FDiv(loss, FInt(gradient_accumulation_steps))
    ELSE loss

\* line 357
is_update_step(stp, gradient_accumulation_steps) ==
    (stp + 1) % gradient_accumulation_steps = 0

\* a save every save_steps updates, counted from 0
is_save_step_from_zero(gs, save_steps) == gs % save_steps = 0

\* line 385
is_save_step(gs, save_steps) == (gs + 1) % save_steps = 0

\* an update block that advances the scheduler only when the optimizer stepped
update_block_sched_follows_optimizer(fp16, found_inf, g, le) ==
    LET skipped == fp16 /\ found_inf
    IN  [skipped |-> skipped,
         last_epoch |-> IF skipped THEN le ELSE le + 1,
         grad |-> FZero]

\* lines 358-370: unscale, clip, scaler.step(optimizer) or optimizer.step(),
\* scheduler.step(), optimizer.zero_grad().  found_inf: the scaler found an
\* inf/nan gradient, so scaler.step skips optimizer.step (fp16 only).
\* The scaler's scale factor is constant between two scaler.update() calls,
\* so scale followed by unscale_ gives the gradient back; g is that gradient.
update_block(fp16, found_inf, g, le) ==
    LET skipped == fp16 /\ found_inf
    IN  [skipped |-> skipped,
         last_epoch |-> le + 1,
         grad |-> FZero]

\* save_model: the directories after save_pretrained(checkpoint-<global_steps>)
save_model(dirs, gs) == dirs \cup {FormatInt(gs)}

\* no collator call is under way: the collator is built (line 311) with the
\* default max_seq_len and has been handed nothing
NoCollate ==
    /\ collator = [max_seq_len |-> default_max_seq_len, special_ids |-> {cls_token_id, sep_token_id}]
    /\ examples = <<>>
    /\ masking = NoMasking
    /\ batch = NoBatch

\* the program state after construction, for a run of pretrain
InitRun ==
    /\ pc = "loop"
    /\ args \in [gradient_accumulation_steps : 1..MaxAccum,
                 num_epochs : 1..MaxEpochs,
                 save_steps : 1..MaxSaveSteps,
                 save_total_limit : RunLimits,
                 logging_step : LoggingSteps,
                 fp16 : BOOLEAN]
    /\ len_dataloader \in 1..MaxBatches
    /\ batch_loss \in [0..(len_dataloader - 1) -> Losses]
    /\ epoch = 1 /\ step = 0 /\ global_steps = 0
    /\ t_total = args.num_epochs * len_dataloader
    /\ warmup_steps = build_warmup_steps(t_total)
    /\ last_epoch = 0
    /\ lr_mult = lr_lambda(0, warmup_steps, t_total)
    /\ grad = FZero /\ window = <<>> /\ applied_grad = FZero
    /\ optimizer_calls = 0 /\ optimizer_skipped = 0
    /\ total_loss = FZero /\ cur_avg_loss = FZero
    /\ pretrain_loss_list = <<>> /\ global_steps_list = <<>>
    /\ record_dirs \in InitialRecordDirs
    /\ record_dirs_at_start = record_dirs
    /\ NoCollate
    /\ save_dirs = {} /\ save_log = <<>>
    /\ did_update = FALSE /\ did_save = FALSE
    /\ best_model_checkpoint = None /\ dirs_before = {} /\ deleted = {}

\* Lines 340-383 of one iteration: backward, the loss bookkeeping and, on an
\* update step, the update block and the logging reset.
\* loss: the loss after line 349, which is what is recorded; g1: the gradient
\* after backward() of the loss as the model returned it (the gradient of a
\* loss is modelled by the loss value); ub: the result of the update block.
Accumulate(loss, g1, boundary, ub) ==
    /\ pretrain_loss_list' = Append(pretrain_loss_list, loss)
    /\ global_steps_list' = Append(global_steps_list, global_steps + 1)
    /\ total_loss' = FAdd(total_loss, loss)
    /\ cur_avg_loss' = IF boundary /\ (global_steps + 1) % args.logging_step = 0
                       THEN FZero
                       ELSE FAdd(cur_avg_loss, loss)
    /\ did_update' = boundary
    /\ IF boundary
       THEN /\ grad' = ub.grad
            /\ window' = <<>>
            /\ last_epoch' = ub.last_epoch
            /\ lr_mult' = lr_lambda(ub.last_epoch, warmup_steps, t_total)
            /\ optimizer_calls' = optimizer_calls + 1
            /\ optimizer_skipped' = optimizer_skipped + (IF ub.skipped THEN 1 ELSE 0)
            /\ applied_grad' = IF ub.skipped THEN applied_grad ELSE g1
            /\ global_steps' = global_steps + 1
       ELSE /\ grad' = g1
            /\ window' = Append(window, loss)
            /\ UNCHANGED <<last_epoch, lr_mult, optimizer_calls, optimizer_skipped,
                           applied_grad, global_steps>>

\* Lines 385-388 of one iteration and the step to the next one.
\* gs1: global_steps at line 385; dirs1: the record root after save_model;
\* rot: the result of rotate_checkpoints.  An exception of rotate_checkpoints
\* leaves pretrain.
SaveAndRotate(gs1, saving, dirs1, rot) ==
    /\ did_save' = saving
    /\ save_log' = IF saving THEN Append(save_log, FormatInt(gs1)) ELSE save_log
    /\ record_dirs' = rot.dirs
    /\ IF saving
       THEN /\ best_model_checkpoint' = Some(FormatInt(gs1))
            /\ dirs_before' = dirs1
            /\ deleted' = rot.deleted
       ELSE UNCHANGED rotVars
    /\ IF rot.raised
       THEN pc' = "error" /\ UNCHANGED <<epoch, step>>
       ELSE IF step + 1 < len_dataloader
       THEN pc' = "loop" /\ step' = step + 1 /\ epoch' = epoch
       ELSE IF epoch < args.num_epochs
       THEN pc' = "loop" /\ step' = 0 /\ epoch' = epoch + 1
       ELSE pc' = "final" /\ UNCHANGED <<epoch, step>>

\* lines 385-388 for the value gs1 of global_steps: the rotation follows the
\* save, with the path just written as the protected one
PeriodicSave(gs1, saving, dirs1, fail_at, fail_kind) ==
    SaveAndRotate(gs1, saving, dirs1,
                  IF saving
                  THEN rotate_checkpoints(args.save_total_limit, dirs1,
                                          Some(FormatInt(gs1)), fail_at, fail_kind)
                  ELSE [dirs |-> dirs1, deleted |-> {}, raised |-> FALSE])

\* One iteration of the inner for loop (lines 338-388).
\* found_inf: the scaler finds an overflow at this update; fail_at, fail_kind:
\* the rmtree that raises, see delete_checkpoints.
SubStep ==
    /\ pc = "loop"
    /\ \E found_inf \in BOOLEAN, fail_at \in 0..Cardinality(record_dirs),
          fail_kind \in RmFailures :
       LET N == args.gradient_accumulation_steps
           raw == FInt(batch_loss[step])     \* loss, logits = model(**batch_cuda)[:2]
           boundary == is_update_step(step, N)
           gs1 == IF boundary THEN global_steps + 1 ELSE global_steps
           saving == is_save_step(gs1, args.save_steps)
       IN  /\ found_inf => args.fp16 /\ boundary
           /\ fail_at = 0 => fail_kind = "denied"
           /\ fail_at > 0 => saving
           /\ Accumulate(scaled_loss(raw, N), FAdd(grad, raw), boundary,
                         update_block(args.fp16, found_inf, FAdd(grad, raw), last_epoch))
           /\ PeriodicSave(gs1, saving,
                           IF saving THEN save_model(record_dirs, gs1) ELSE record_dirs,
                           fail_at, fail_kind)
           /\ UNCHANGED <<args, len_dataloader, batch_loss, record_dirs_at_start, collVars, warmup_steps, t_total,
                          save_dirs>>

\* lines 390-391: save_model(args, model, tokenizer, global_steps, True)
FinalSave ==
    /\ pc = "final"
    /\ save_dirs' = save_model(save_dirs, global_steps)
    /\ pc' = "done"
    /\ UNCHANGED <<args, len_dataloader, batch_loss, record_dirs_at_start, collVars, loopVars, schedVars, optVars, lossVars,
                   record_dirs, save_log, did_update, did_save, rotVars>>

Next == SubStep \/ FinalSave

Spec == InitRun /\ [][Next]_vars

\* The runs whose rotation is switched off (--save_total_limit 0, or None):
\* rotate_checkpoints returns at line 296, so no rmtree can end such a run.
InitLive == InitRun /\ limit_disabled(args.save_total_limit)

\* pretrain runs in one thread and every iteration of its loops returns: the
\* next iteration, and after the last one the final save, do take place
SpecLive == InitLive /\ [][Next]_vars /\ WF_vars(SubStep) /\ WF_vars(FinalSave)

(***************************************************************************)
(* A rotation on its own: rotate_checkpoints called on any record root,    *)
(* with any limit and any protected path.                                  *)
(***************************************************************************)
\* the variables of the step loop, at rest
NoRun ==
    /\ len_dataloader = 1 /\ batch_loss = <<1>>
    /\ epoch = 1 /\ step = 0 /\ global_steps = 0
    /\ grad = FZero /\ window = <<>> /\ applied_grad = FZero
    /\ optimizer_calls = 0 /\ optimizer_skipped = 0
    /\ total_loss = FZero /\ cur_avg_loss = FZero
    /\ pretrain_loss_list = <<>> /\ global_steps_list = <<>>
    /\ save_dirs = {} /\ save_log = <<>>
    /\ did_update = FALSE /\ did_save = FALSE

InitRotate ==
    /\ pc = "rotate"
    /\ args \in [gradient_accumulation_steps : {1}, num_epochs : {1}, save_steps : {1},
                 save_total_limit : Limits, logging_step : {1}, fp16 : {FALSE}]
    /\ NoRun
    /\ t_total = 1 /\ warmup_steps = build_warmup_steps(1)
    /\ last_epoch = 0 /\ lr_mult = FZero
    /\ record_dirs \in SUBSET Names
    /\ record_dirs_at_start = record_dirs
    /\ NoCollate
    /\ best_model_checkpoint \in {None} \cup {Some(p) : p \in Names}
    /\ dirs_before = record_dirs
    /\ deleted = {}

\* the state after rotate_checkpoints returned rot
Rotated(rot) ==
    /\ record_dirs' = rot.dirs
    /\ deleted' = rot.deleted
    /\ pc' = IF rot.raised THEN "rotate_error" ELSE "rotated"

\* rotate_checkpoints(args, best_model_checkpoint, use_mtime=False)
Rotate ==
    /\ pc = "rotate"
    /\ \E fail_at \in 0..Cardinality(record_dirs), fail_kind \in RmFailures :
          /\ fail_at = 0 => fail_kind = "denied"
          /\ Rotated(rotate_checkpoints(args.save_total_limit, record_dirs,
                                        best_model_checkpoint, fail_at, fail_kind))
    /\ UNCHANGED <<args, len_dataloader, batch_loss, record_dirs_at_start, collVars, loopVars, schedVars, optVars,
                   lossVars, save_dirs, save_log, did_update, did_save,
                   best_model_checkpoint, dirs_before>>

NextRotate == Rotate

SpecRotate == InitRotate /\ [][NextRotate]_vars

(***************************************************************************)
(* The scheduler on its own: LambdaLR with lr_lambda, for integer          *)
(* warmup_steps and t_total.                                               *)
(***************************************************************************)
InitSched ==
    /\ pc = "sched"
    /\ args = [gradient_accumulation_steps |-> 1, num_epochs |-> 1, save_steps |-> 1,
               save_total_limit |-> None, logging_step |-> 1, fp16 |-> FALSE]
    /\ NoRun
    /\ t_total \in 0..MaxTotal
    /\ warmup_steps \in {FInt(w) : w \in 0..t_total}
    /\ last_epoch = 0
    /\ lr_mult = lr_lambda(0, warmup_steps, t_total)
    /\ record_dirs = {} /\ best_model_checkpoint = None
    /\ record_dirs_at_start = {}
    /\ NoCollate
    /\ dirs_before = {} /\ deleted = {}

\* scheduler.step(): LambdaLR advances last_epoch and evaluates lr_lambda
SchedulerStep ==
    /\ pc = "sched"
    /\ last_epoch <= t_total + 1
    /\ last_epoch' = last_epoch + 1
    /\ lr_mult' = lr_lambda(last_epoch + 1, warmup_steps, t_total)
    /\ UNCHANGED <<pc, args, len_dataloader, batch_loss, record_dirs_at_start, collVars, loopVars, warmup_steps,
                   t_total, optVars, lossVars, dirVars, did_update, did_save, rotVars>>

NextSched == SchedulerStep

SpecSched == InitSched /\ [][NextSched]_vars

(***************************************************************************)
(* The collator on its own: one call of DGDataCollator.__call__ on any     *)
(* batch the DataLoader may hand it.                                       *)
(***************************************************************************)
\* lines 73-74: tokenizer.encode_plus(name, content) is [CLS] name [SEP]
\* content [SEP], segment 0 up to the first [SEP] and 1 after it, and an
\* attention mask of ones; n and c count the tokens of name and content
encode_plus(n, c) ==
    << <<cls_token_id>> \o [k \in 1..n |-> 200 + k] \o <<sep_token_id>>
           \o [k \in 1..c |-> 300 + k] \o <<sep_token_id>>,
       [k \in 1..(n + 2) |-> 0] \o [k \in 1..(c + 1) |-> 1],
       [k \in 1..(n + c + 3) |-> 1] >>
\* the examples of the dataset: 5 and 7 tokens long
Dataset == {encode_plus(1, 1), encode_plus(2, 2)}
\* the batches of the dataset handed to the collator
Batches == UNION {[1..b -> Dataset] : b \in 0..MaxBatch}
\* --max_seq_len, for those batches
MaxSeqLens == {1, 4, 6, 8}
\* a batch of three examples 5, 12 and 8 tokens long, and the --max_seq_len
\* it is collated with
LongBatch == <<encode_plus(1, 1), encode_plus(4, 5), encode_plus(2, 3)>>
LongBatchSeqLen == 10
\* the ids get_special_tokens_mask flags: [CLS] and [SEP], and in later
\* versions of the tokenizer every special token of the vocabulary
SpecialIdSets == {{cls_token_id, sep_token_id},
                  {pad_token_id, cls_token_id, sep_token_id, mask_token_id}}
\* the ids torch.randint draws at a position whose draws are free, and the id
\* it draws elsewhere
RandomWords == {sep_token_id, 301}
OtherWord == 302
\* what the generator draws at one position: whether the uniform draw of
\* line 162 is below mlm_probability, the trials of lines 166 and 170 and the
\* word of line 171
Outcomes == [below_p : BOOLEAN, bernoulli_08 : BOOLEAN, bernoulli_05 : BOOLEAN,
             word : RandomWords]

\* the subsets of S of at most k elements
RECURSIVE UpTo(_, _)
UpTo(S, k) ==
    IF k = 0 THEN {{}}
    ELSE {{}} \cup {s \cup {p} : s \in UpTo(S, k - 1), p \in S}

\* the draws of one call: o at the touched positions; at every other position
\* the draw of line 162 is not below mlm_probability and both later trials
\* succeed
Draws(positions, touched, o) ==
    [below_p |-> {p \in touched : o[p].below_p},
     bernoulli_08 |-> (positions \ touched) \cup {p \in touched : o[p].bernoulli_08},
     bernoulli_05 |-> (positions \ touched) \cup {p \in touched : o[p].bernoulli_05},
     random_words |-> [p \in positions |-> IF p \in touched THEN o[p].word
                                                            ELSE OtherWord]]

InitCollate ==
    /\ pc = "collate"
    /\ args = [gradient_accumulation_steps |-> 1, num_epochs |-> 1, save_steps |-> 1,
               save_total_limit |-> None, logging_step |-> 1, fp16 |-> FALSE]
    /\ NoRun
    /\ t_total = 1 /\ warmup_steps = build_warmup_steps(1)
    /\ last_epoch = 0 /\ lr_mult = FZero
    /\ record_dirs = {} /\ record_dirs_at_start = {}
    /\ best_model_checkpoint = None /\ dirs_before = {} /\ deleted = {}
    /\ collator \in [max_seq_len : MaxSeqLens \cup {LongBatchSeqLen},
                      special_ids : SpecialIdSets]
    /\ examples \in Batches \cup {LongBatch}
    /\ collator.max_seq_len = LongBatchSeqLen <=> examples = LongBatch
    /\ masking = NoMasking
    /\ batch = NoBatch

\* the state after __call__ returned r
Collated(r) ==
    /\ masking' = r.masking
    /\ batch' = r.batch
    /\ pc' = "collated"

\* lines 179-194, with any draws of the generator; positions are those of
\* the batch
CollateDrawing(max_seq_len, positions) ==
    \E touched \in UpTo(positions, MaxTouched) :
       \E o \in [touched -> Outcomes] :
          Collated(collate(input_ids_list(examples), token_type_ids_list(examples),
                           attention_mask_list(examples), max_seq_len,
                           collator.special_ids, Draws(positions, touched, o)))

\* lines 179-180
CollateTo(max_seq_len) ==
    CollateDrawing(max_seq_len, Positions(Len(examples), max_seq_len))

\* DGDataCollator.__call__(examples)
Collate ==
    /\ pc = "collate"
    /\ IF call_raises(examples)
       THEN pc' = "collate_error" /\ UNCHANGED <<masking, batch>>
       ELSE CollateTo(batch_seq_len(cur_max_seq_len(input_ids_list(examples)),
                                    collator.max_seq_len))
    /\ UNCHANGED <<args, len_dataloader, batch_loss, record_dirs_at_start, loopVars,
                   schedVars, optVars, lossVars, dirVars, did_update, did_save, rotVars,
                   collator, examples>>

NextCollate == Collate

SpecCollate == InitCollate /\ [][NextCollate]_vars

(***************************************************************************)
(* Properties.                                                             *)
(***************************************************************************)
Ckpt10 == <<49, 48>>
Ckpt20 == <<50, 48>>
Ckpt30 == <<51, 48>>
Ckpt40 == <<52, 48>>
Ckpt50 == <<53, 48>>
ExampleDirs == {Ckpt10, Ckpt20, Ckpt30, Ckpt40, Ckpt50}

\* rotate_checkpoints has returned or raised
RotationOver == pc \in {"rotated", "rotate_error"}
\* the retention limit is an int >= 1
LimitPositive == args.save_total_limit # None /\ Val(args.save_total_limit) >= 1
\* the protected path is a checkpoint-<n> directory of the record root
ProtectedPresent ==
    /\ best_model_checkpoint # None
    /\ Val(best_model_checkpoint) \in dirs_before
    /\ RegexMatches(Val(best_model_checkpoint))

\* C1: with a retention limit >= 1, rotate_checkpoints never deletes the
\* protected checkpoint passed to it, whatever its step number and whatever
\* the other directories of the record root, even when an rmtree fails; and
\* for checkpoints {10,20,30,40,50}, limit 3 and checkpoint-30 protected the
\* retained set is exactly {30,40,50}.
C1_ProtectedNeverDeleted ==
    /\ (RotationOver /\ LimitPositive /\ ProtectedPresent)
           => /\ Val(best_model_checkpoint) \notin deleted
              /\ Val(best_model_checkpoint) \in record_dirs
    /\ (pc = "rotated" /\ dirs_before = ExampleDirs
            /\ args.save_total_limit = Some(3) /\ best_model_checkpoint = Some(Ckpt30))
           => record_dirs = {Ckpt30, Ckpt40, Ckpt50}

\* C1 witness: a rotation of more checkpoints than the limit has deleted some
\* of them while the protected one was the oldest.
C1_Witness ==
    /\ pc = "rotated" /\ LimitPositive /\ ProtectedPresent
    /\ dirs_before = ExampleDirs
    /\ best_model_checkpoint = Some(Ckpt10)
    /\ Cardinality(deleted) = 2

\* the step numbers of the checkpoint-<n> directories before the rotation
StepsBefore == {q \in dirs_before : RegexMatches(q)}
DistinctSteps == \A p, q \in StepsBefore : ParseInt(p) = ParseInt(q) => p = q

\* C5: when the number of checkpoints exceeds the limit (>= 1), the rotation
\* deletes exactly count - limit checkpoints, and every deleted checkpoint has
\* a smaller step number than every retained checkpoint other than the
\* protected one.  (Stated for record roots with one directory per step
\* number and a rotation in which no rmtree failed.)
C5_DeletesOldest ==
    (/\ pc = "rotated" /\ LimitPositive /\ ProtectedPresent /\ DistinctSteps
     /\ Cardinality(StepsBefore) > Val(args.save_total_limit))
        => /\ Cardinality(deleted) =
                  Cardinality(StepsBefore) - Val(args.save_total_limit)
           /\ \A d \in deleted :
                 \A r \in (StepsBefore \ deleted) \ best_model_checkpoint :
                    ParseInt(d) < ParseInt(r)

\* C9: with a retention limit that is 0, negative or None the rotation
\* deletes nothing: the directories after the call are those before it, and
\* the call returns normally.
C9_DisabledLimitDeletesNothing ==
    (pc # "rotate" /\ ~LimitPositive)
        => /\ pc = "rotated"
           /\ record_dirs = dirs_before
           /\ deleted = {}

\* C9 witness: a rotation with limit 0 over several checkpoints, one of them
\* protected, has returned.
C9_Witness ==
    /\ pc = "rotated"
    /\ args.save_total_limit = Some(0)
    /\ dirs_before = ExampleDirs
    /\ best_model_checkpoint = Some(Ckpt30)

\* the scheduler's warmup_steps when it is an int
WarmupInt == warmup_steps[1]
IntegerWarmup == pc = "sched" /\ warmup_steps[2] = 1 /\ WarmupInt >= 1

\* C8 as stated: for integers 1 <= warmup_steps <= total_steps (total_steps ==
\* warmup_steps included), lr_lambda(0) == 0, lr_lambda(warmup_steps) == 1 and
\* lr_lambda(total_steps) == 0.  lr_mult is lr_lambda(last_epoch).
C8_Original ==
    IntegerWarmup
        => /\ last_epoch = 0 => lr_mult = FZero
           /\ last_epoch = WarmupInt => lr_mult = FOne
           /\ last_epoch = t_total => lr_mult = FZero

\* C8 amended: lr_lambda(0) == 0 and lr_lambda(total_steps) == 0 for all
\* integers 1 <= warmup_steps <= total_steps; lr_lambda(warmup_steps) == 1
\* when warmup_steps < total_steps, and 0 when total_steps == warmup_steps.
C8_ScheduleEndpoints ==
    IntegerWarmup
        => /\ last_epoch = 0 => lr_mult = FZero
           /\ (last_epoch = WarmupInt /\ WarmupInt < t_total) => lr_mult = FOne
           /\ (last_epoch = WarmupInt /\ WarmupInt = t_total) => lr_mult = FZero
           /\ last_epoch = t_total => lr_mult = FZero

\* C8 witness: the scheduler has reached step warmup_steps == total_steps.
C8_Witness ==
    IntegerWarmup /\ WarmupInt = t_total /\ last_epoch = t_total

\* pretrain is running or has ended
InRun == pc \in {"loop", "final", "done", "error"}

\* C2: for any accumulation_steps N, epochs and batches per epoch, every
\* optimizer update is preceded by exactly N sub-steps since the previous
\* update (or the start of the run), also across epoch boundaries: right
\* after the k-th update exactly k * N sub-steps have run.
C2_OneUpdatePerNSubSteps ==
    (InRun /\ did_update)
        => Len(pretrain_loss_list) = optimizer_calls * args.gradient_accumulation_steps

\* C3: a failing deletion during rotation does not abort training: no rmtree
\* failure makes an exception leave pretrain before the final save.
C3_DeletionFailureDoesNotAbort == pc # "error"

NoDuplicates(seq) == \A i, j \in 1..Len(seq) : seq[i] = seq[j] => i = j

\* C4: a periodic save happens only on a sub-step that has just completed an
\* optimizer update, so no checkpoint-<n> is written twice in a run and none
\* is written before the first optimizer update.
C4_SaveOnlyOnUpdateStep ==
    (InRun /\ did_save)
        => /\ did_update
           /\ optimizer_calls >= 1
           /\ NoDuplicates(save_log)

\* the sum of the recorded (scaled) losses of sub-steps 1..i whose gradients
\* went into update number global_steps
RECURSIVE WindowLossSum(_)
WindowLossSum(i) ==
    IF i = 0 THEN FZero
    ELSE IF global_steps_list[i] = global_steps
    THEN FAdd(pretrain_loss_list[i], WindowLossSum(i - 1))
    ELSE WindowLossSum(i - 1)

\* C6: with accumulation_steps N > 1 each sub-step's loss is scaled by 1/N
\* before its backward pass, so the gradient an optimizer update applies is
\* the sum of the gradients of the scaled losses of its sub-steps.  (Stated
\* for runs in which no update was skipped; the gradient of a loss is
\* modelled by the loss value backward() was called on.)
C6_GradientOfScaledLosses ==
    (InRun /\ did_update /\ optimizer_skipped = 0
           /\ args.gradient_accumulation_steps > 1)
        => applied_grad = WindowLossSum(Len(pretrain_loss_list))

\* C7: at natural completion of all epochs the scheduler's step count equals
\* the total_steps the schedule was built with, and the multiplier is 0, for
\* any accumulation_steps, epochs and batches per epoch.  (Stated for runs
\* with at least one optimizer update.)
C7_MultiplierZeroAtCompletion ==
    (pc \in {"final", "done"} /\ optimizer_calls >= 1)
        => (last_epoch = t_total /\ lr_mult = FZero)

\* C10: under mixed precision, a sub-step whose optimizer update the scaler
\* skips still advances the scheduler by one step and global_steps by one,
\* and its loss is still appended to the loss history and added to the
\* running totals.
C10_SkippedUpdateStillCounts ==
    [][(optimizer_skipped' = optimizer_skipped + 1)
          => /\ args.fp16
             /\ last_epoch' = last_epoch + 1
             /\ global_steps' = global_steps + 1
             /\ Len(pretrain_loss_list') = Len(pretrain_loss_list) + 1
             /\ Len(global_steps_list') = Len(global_steps_list) + 1
             /\ global_steps_list'[Len(global_steps_list')] = global_steps'
             /\ total_loss' =
                    FAdd(total_loss, pretrain_loss_list'[Len(pretrain_loss_list')])
             /\ FLt(total_loss, total_loss')]_vars

\* C10 witness: a run under fp16 in which the scaler skipped an update.
C10_Witness == InRun /\ args.fp16 /\ optimizer_skipped > 0 /\ did_update


(***************************************************************************)
(* Properties of the collator.                                             *)
(***************************************************************************)
\* the length of the i-th example handed to the collator
ExampleLen(i) == Len(examples[i][1])
\* the longest of them
Longest == CHOOSE n \in {ExampleLen(i) : i \in 1..Len(examples)} :
               \A i \in 1..Len(examples) : ExampleLen(i) <= n
\* L of the batch: min(longest example, max_len)
BatchLen == IF Longest < collator.max_seq_len THEN Longest ELSE collator.max_seq_len
\* the positions of the returned batch
BatchPositions == (1..Len(examples)) \X (1..BatchLen)
\* the collator returned a batch
Returned == pc = "collated"
At(matrix, p) == matrix[p[1]][p[2]]
Ones(n) == [j \in 1..n |-> 1]

\* C11: with L = min(longest example, max_len), every example longer than L
\* has as its input_ids row its first L-1 token ids followed by the SEP id,
\* and as its segment-id and attention-mask rows its first L elements; the
\* row still ends with SEP after masking.  The batch of lengths 5, 12 and 8
\* collated with max_len 10 has L = 10 and its second row ends with SEP.
C11_TruncationKeepsSep ==
    Returned =>
        /\ \A i \in 1..Len(examples) :
              ExampleLen(i) > BatchLen =>
                  /\ masking.inputs[i] =
                        SubSeq(examples[i][1], 1, BatchLen - 1) \o <<sep_token_id>>
                  /\ batch.token_type_ids[i] = SubSeq(examples[i][2], 1, BatchLen)
                  /\ batch.attention_mask[i] = SubSeq(examples[i][3], 1, BatchLen)
                  /\ Len(batch.input_ids[i]) = BatchLen
                  /\ batch.input_ids[i][BatchLen] = sep_token_id
        /\ examples = LongBatch =>
              /\ BatchLen = 10
              /\ Len(batch.input_ids[2]) = 10
              /\ batch.input_ids[2][10] = sep_token_id

\* the batch of lengths 5, 12 and 8 was collated, a token of the truncated
\* row was masked, and the row ends with SEP where the example held 304
C11_Witness ==
    /\ Returned /\ examples = LongBatch
    /\ \E j \in 1..10 : <<2, j>> \in masking.masked_indices
    /\ examples[2][1][10] = 304
    /\ batch.input_ids[2][10] = sep_token_id

\* the positions of the padded and truncated batch that hold an id the
\* tokenizer flags as special
Flagged == {p \in BatchPositions : At(masking.inputs, p) \in collator.special_ids}

\* C12: no position the tokenizer's special-token mask flags is selected for
\* masking: its label is -100 and its input id is the one it held after
\* padding and truncation.
C12_SpecialTokensNeverMasked ==
    Returned =>
        \A p \in Flagged :
            /\ p \notin masking.masked_indices
            /\ At(batch.labels, p) = -100
            /\ At(batch.input_ids, p) = At(masking.inputs, p)

\* a batch with flagged positions, padding among them, one of whose other
\* positions was masked
C12_Witness ==
    /\ Returned
    /\ \E p \in Flagged : At(masking.inputs, p) = pad_token_id
    /\ \E p \in BatchPositions : p \in masking.masked_indices /\ p \notin Flagged

\* C13: a masked position has as its label the id it held before the
\* corruption, which is not -100, whether or not that id was replaced; every
\* other position has the label -100.
C13_LabelsAreOriginalIds ==
    Returned =>
        \A p \in BatchPositions :
            IF p \in masking.masked_indices
            THEN At(batch.labels, p) = At(masking.inputs, p) /\ At(batch.labels, p) # -100
            ELSE At(batch.labels, p) = -100

\* a masked position whose id was replaced by a random id that differs from
\* its label
C13_Witness ==
    /\ Returned
    /\ \E p \in masking.indices_random :
          /\ At(batch.input_ids, p) # At(masking.inputs, p)
          /\ At(batch.labels, p) = At(masking.inputs, p)

\* C14: for every example of length len <= L the attention-mask row is len
\* ones followed by L - len zeros (the example's mask being all ones), the
\* segment-id row is the example's followed by zeros, and the four matrices
\* of the batch have the shape [B, L].
C14_PaddingAndShape ==
    Returned =>
        /\ \A i \in 1..Len(examples) :
              (ExampleLen(i) <= BatchLen /\ examples[i][3] = Ones(ExampleLen(i))) =>
                  /\ batch.attention_mask[i] =
                        Ones(ExampleLen(i)) \o Zeros(BatchLen - ExampleLen(i))
                  /\ batch.token_type_ids[i] =
                        examples[i][2] \o Zeros(BatchLen - ExampleLen(i))
        /\ \A m \in {batch.input_ids, batch.attention_mask, batch.token_type_ids,
                      batch.labels} :
              /\ Len(m) = Len(examples)
              /\ \A i \in 1..Len(m) : Len(m[i]) = BatchLen

\* a batch one of whose rows was padded, the longest example being shorter
\* than max_len
C14_Witness ==
    /\ Returned
    /\ Longest < collator.max_seq_len
    /\ \E i \in 1..Len(examples) :
          ExampleLen(i) < BatchLen /\ batch.attention_mask[i][BatchLen] = 0

\* C15: handed no example, the collator raises an error and returns no batch.
C15_EmptyBatchRejected ==
    (examples = <<>> /\ pc \in {"collated", "collate_error"}) =>
        pc = "collate_error" /\ batch = NoBatch

\* the collator was called with no example and raised
C15_Witness == examples = <<>> /\ pc = "collate_error"

\* C18: the positions given the mask token and those given a random id are
\* disjoint subsets of the masked positions, and a position that is not
\* masked keeps its input id.
C18_ReplacementsPartitionMasked ==
    Returned =>
        /\ masking.indices_replaced \cap masking.indices_random = {}
        /\ masking.indices_replaced \subseteq masking.masked_indices
        /\ masking.indices_random \subseteq masking.masked_indices
        /\ \A p \in masking.indices_replaced : At(batch.input_ids, p) = mask_token_id
        /\ \A p \in BatchPositions \ masking.masked_indices :
              At(batch.input_ids, p) = At(masking.inputs, p)

\* a masked position that was given the mask token, in a batch whose other
\* positions kept their ids
C18_Witness ==
    /\ Returned
    /\ \E p \in masking.indices_replaced :
          /\ At(batch.input_ids, p) = mask_token_id
          /\ At(masking.inputs, p) # mask_token_id


(***************************************************************************)
(* Further properties of the step loop and of the schedule.                *)
(***************************************************************************)
\* C16: the scheduler's step counter and global_steps each increase by
\* exactly 1 on every optimizer update and are left unchanged by every
\* sub-step that does not complete an accumulation window, so after every
\* sub-step the scheduler's counter, global_steps and the number of optimizer
\* updates attempted are equal.
C16_CountersInLockstep ==
    [][pc = "loop" =>
          /\ optimizer_calls' \in {optimizer_calls, optimizer_calls + 1}
          /\ optimizer_calls' = optimizer_calls + 1 =>
                 last_epoch' = last_epoch + 1 /\ global_steps' = global_steps + 1
          /\ optimizer_calls' = optimizer_calls =>
                 last_epoch' = last_epoch /\ global_steps' = global_steps
          /\ Len(window) + 1 < args.gradient_accumulation_steps =>
                 optimizer_calls' = optimizer_calls
          /\ last_epoch' = global_steps'
          /\ global_steps' = optimizer_calls']_vars

\* three sub-steps of a run that accumulates over two: one update was made,
\* the third sub-step made none
C16_Witness ==
    /\ InRun /\ args.gradient_accumulation_steps = 2
    /\ Len(pretrain_loss_list) = 3 /\ ~did_update
    /\ optimizer_calls = 1 /\ last_epoch = 1 /\ global_steps = 1

\* the run started with an empty record root and no rmtree has failed
EmptyStartNoFailure == record_dirs_at_start = {} /\ pc \in {"loop", "final", "done"}

\* C17: in a run that starts with an empty record root and has a retention
\* limit L >= 1, deletions succeeding, after every periodic save and its
\* rotation at most L checkpoint-<n> directories are under the record root
\* and the checkpoint just saved is one of them.
C17_AtMostLimitAfterRotation ==
    (EmptyStartNoFailure /\ LimitPositive /\ did_save) =>
        /\ Cardinality({d \in record_dirs : RegexMatches(d)}) <= Val(args.save_total_limit)
        /\ FormatInt(global_steps) \in record_dirs
        /\ record_dirs = (dirs_before \ deleted)

\* a save of such a run whose rotation deleted a checkpoint and left as many
\* as the limit allows
C17_Witness ==
    /\ EmptyStartNoFailure /\ LimitPositive /\ did_save
    /\ deleted # {}
    /\ Cardinality(record_dirs) = Val(args.save_total_limit)
    /\ Cardinality(dirs_before) > Val(args.save_total_limit)

\* the multiplier is in [0, 1], and 0 from total_steps on
MultiplierInRange ==
    /\ FLe(FZero, lr_mult) /\ FLe(lr_mult, FOne)
    /\ last_epoch >= t_total => lr_mult = FZero
\* one more step of the scheduler does not lower the multiplier before
\* warmup_steps and does not raise it from warmup_steps on
MultiplierUpThenDown ==
    /\ FLt(FInt(last_epoch'), warmup_steps) => FLe(lr_mult, lr_mult')
    /\ FLe(warmup_steps, FInt(last_epoch)) => FLe(lr_mult', lr_mult)

\* C19: for all integers step >= 0 and 0 <= warmup_steps <= total_steps,
\* lr_lambda(step) is in [0, 1], it does not decrease with step while step <
\* warmup_steps, does not increase with step from warmup_steps on, and is 0
\* for every step >= total_steps.
C19_MultiplierBoundedUpThenDown ==
    /\ [](pc = "sched" => MultiplierInRange)
    /\ [][pc = "sched" => MultiplierUpThenDown]_vars

\* a schedule with a warmup and a decay of several steps, stepped past
\* total_steps
C19_Witness ==
    /\ pc = "sched"
    /\ warmup_steps = FInt(2) /\ t_total = 5
    /\ last_epoch = t_total + 1
    /\ lr_mult = FZero

\* the name of checkpoint-<n> and the path handed to the rotation, for the
\* save of the last sub-step
SavedAsGlobalSteps ==
    did_save =>
        /\ save_log[Len(save_log)] = FormatInt(global_steps)
        /\ ParseInt(FormatInt(global_steps)) = global_steps
        /\ (global_steps + 1) % args.save_steps = 0
        /\ FormatInt(global_steps) \in dirs_before
        /\ best_model_checkpoint = Some(FormatInt(global_steps))

\* C20 as stated: every periodic checkpoint is written to checkpoint-<n>
\* with n the value of global_steps when it is saved and (n + 1) mod
\* save_steps = 0, the first periodic checkpoint of a run is
\* checkpoint-(save_steps - 1), and the protected path handed to the
\* rotation is the path just written.
C20_Original ==
    InRun =>
        /\ SavedAsGlobalSteps
        /\ save_log # <<>> => save_log[1] = FormatInt(args.save_steps - 1)

\* C20, amended: as stated, but the first periodic checkpoint of a run is
\* checkpoint-1 when save_steps = 1 and gradient_accumulation_steps = 1,
\* and checkpoint-(save_steps - 1) otherwise.
C20_CheckpointNamedByGlobalSteps ==
    InRun =>
        /\ SavedAsGlobalSteps
        /\ save_log # <<>> =>
              save_log[1] =
                  IF args.save_steps = 1 /\ args.gradient_accumulation_steps = 1
                  THEN FormatInt(1)
                  ELSE FormatInt(args.save_steps - 1)

\* a run that saves every step and updates every sub-step has written
\* checkpoint-1 first, and a second checkpoint since
C20_Witness ==
    /\ InRun /\ did_save
    /\ args.save_steps = 1 /\ args.gradient_accumulation_steps = 1
    /\ Len(save_log) >= 2 /\ save_log[1] = FormatInt(1)
    /\ best_model_checkpoint = Some(FormatInt(global_steps))


(***************************************************************************)
(* Progress of the step loop.                                              *)
(***************************************************************************)
\* backward() has added the gradient of some sub-step to the parameters and
\* no optimizer update has been made since
Unapplied == window # <<>>

\* C21: every sub-step's gradient is eventually applied by an optimizer
\* update before the final checkpoint is saved, so that no accumulated
\* gradient is left unapplied when the run completes, for any
\* accumulation_steps, epochs and batches per epoch.  (Runs that an rmtree
\* failure ends are left aside, see C3.)
C21_GradientEventuallyApplied ==
    Unapplied ~> ((~Unapplied /\ pc \in {"loop", "final"}) \/ pc = "error")

====
